---- MODULE Spec2Model ----
(***************************************************************************)
(* Vacancy ingestion and persistence (main.py, src/db_manager.py,          *)
(* src/saver.py): the companies/vacancies store behind one psycopg2        *)
(* connection, the DBManager and DBSaver operations, the ingestion loop of *)
(* interface() and the read queries.                                       *)
(*                                                                         *)
(* Encoding of values.  Python None / SQL NULL is NoneInt in an integer    *)
(* position and NoneStr in a text position; a key that a raw record does   *)
(* not have is AbsentInt / AbsentStr.  A result set (cur.fetchall()) is a  *)
(* function from the id of the vacancies row an entry was produced from to *)
(* the entry: SQL leaves the order open, and two entries may be equal.     *)
(* A numeric AVG is the exact fraction <<numerator, denominator>>.         *)
(***************************************************************************)
EXTENDS Integers, Sequences, FiniteSets, TLC

VARIABLES
    companies,          \* rows of table companies
    vacancies,          \* rows of table vacancies
    companies_id_seq,   \* last value of the SERIAL sequence of companies.id
    vacancies_id_seq,   \* last value of the SERIAL sequence of vacancies.id
    in_error,           \* the connection's transaction is aborted (INERROR)
    pc,                 \* position of interface(): "menu", "company", "records"
    company_idx,        \* index of company_name in company_names (choice 1)
    company_id,         \* local company_id of the ingestion loop
    visited,            \* records of `vacancies` the inner loop has visited
    ret                 \* what the last DBManager call did and returned

vars == <<companies, vacancies, companies_id_seq, vacancies_id_seq, in_error,
          pc, company_idx, company_id, visited, ret>>

store == <<companies, vacancies, companies_id_seq, vacancies_id_seq, in_error>>

loop == <<pc, company_idx, company_id, visited>>

----------------------------------------------------------------------------
(* Bounds of the model *)

\* Rows ever inserted into companies (the SERIAL sequence stops here).
MaxCompanyId == 2

\* Rows ever inserted into vacancies.
MaxVacancyId == 2

\* Records hh_api.get_vacancies returns for one company.
MaxBatch == 2

----------------------------------------------------------------------------
(* Values *)

NoneInt == -1

AbsentInt == -2

NoneStr == "None"

AbsentStr == "<absent>"

\* VARCHAR(255) of companies.name, companies.url, vacancies.title, vacancies.url
VarcharLen == 255

\* A text of 256 characters: one more than a VARCHAR(255) column takes.
LongText == "0123456789abcdef0123456789abcdef0123456789abcdef0123456789abcdef0123456789abcdef0123456789abcdef0123456789abcdef0123456789abcdef0123456789abcdef0123456789abcdef0123456789abcdef0123456789abcdef0123456789abcdef0123456789abcdef0123456789abcdef0123456789abcdef"

\* COMPANY_NAMES of the configuration
company_names == <<"Acme", "Beta">>

\* dict.get(key, default): the default only when the key is not in the dict
GetStr(value, default) == IF value = AbsentStr THEN default ELSE value

GetInt(value, default) == IF value = AbsentInt THEN default ELSE value

----------------------------------------------------------------------------
(* Raw listing records, as hh_api.get_vacancies returns them.  name, url,  *)
(* responsibility, from and to are the values of those keys; snippet and   *)
(* salary say whether the key is absent, null or holds a dict.             *)

Raw(name, url, snippet, responsibility, salary, from, to) ==
    [name |-> name, url |-> url, snippet |-> snippet,
     responsibility |-> responsibility, salary |-> salary, from |-> from, to |-> to]

RawRecords ==
    { Raw("Dev", "u1", "dict", "code", "dict", 1000, 3000),           \* full salary
      Raw("QA", "u2", "dict", AbsentStr, "none", AbsentInt, AbsentInt),   \* "salary": null
      Raw("QA", "u2", "dict", AbsentStr, "absent", AbsentInt, AbsentInt), \* no salary key
      Raw(AbsentStr, AbsentStr, "absent", AbsentStr, "dict", AbsentInt, NoneInt), \* no "from", "to": null
      Raw(LongText, "u1", "dict", "code", "dict", 1000, 3000),        \* title of 256 characters
      Raw("Dev", "u1", "none", AbsentStr, "dict", 1000, 3000) }       \* "snippet": null

\* vacancy.get('snippet', {}).get('responsibility', '') raises AttributeError
\* when the record holds "snippet": null.
NormalizeRaises(vacancy) == vacancy.snippet = "none"

\* SalaryBound with .get(key) in place of .get(key, 0): a key the salary object
\* does not have gives None.
SalaryBoundNoDefault(vacancy, bound) ==
    IF vacancy.salary # "none"
    THEN (IF vacancy.salary = "absent" THEN NoneInt ELSE GetInt(bound, NoneInt))
    ELSE 0

\* vacancy.get('salary', {}).get(key, 0), or 0 when the record holds "salary": null
SalaryBound(vacancy, bound) ==
    IF vacancy.salary # "none"
    THEN (IF vacancy.salary = "absent" THEN 0 ELSE GetInt(bound, 0))
    ELSE 0

\* The dict vacancy_data of the inner loop.
vacancy_data(vacancy, cid) ==
    [company_id  |-> cid,
     title       |-> GetStr(vacancy.name, "vacancy without a title"),
     url         |-> GetStr(vacancy.url, "alternate_url"),
     description |-> IF vacancy.snippet = "absent" THEN ""
                     ELSE GetStr(vacancy.responsibility, ""),
     salary_from |-> SalaryBound(vacancy, vacancy.from),
     salary_to   |-> SalaryBound(vacancy, vacancy.to)]

\* The dict company_data of the outer loop.
company_data(company_name) == [name |-> company_name, url |-> NoneStr, description |-> NoneStr]

----------------------------------------------------------------------------
(* The schema *)

Ids(rows) == {r.id : r \in rows}

\* A text value a VARCHAR(255) column rejects.
TooLong(text) == text # NoneStr /\ Len(text) > VarcharLen

\* INSERT INTO companies fails: name is NOT NULL, name and url are VARCHAR(255).
CompanyViolates(company) ==
    \/ company.name = NoneStr
    \/ TooLong(company.name)
    \/ TooLong(company.url)

\* INSERT INTO vacancies fails: title is NOT NULL, title and url are VARCHAR(255),
\* company_id REFERENCES companies(id) (a NULL company_id is accepted).
VacancyViolates(vacancy) ==
    \/ vacancy.title = NoneStr
    \/ TooLong(vacancy.title)
    \/ TooLong(vacancy.url)
    \/ (vacancy.company_id # NoneInt /\ vacancy.company_id \notin Ids(companies))

\* Cascade without ON DELETE CASCADE: the vacancies stay.
CascadeNone(deleted) == vacancies

\* ON DELETE CASCADE: the vacancies left when the companies `deleted` go.
Cascade(deleted) == {v \in vacancies : v.company_id \notin Ids(deleted)}

\* The record `ret` of a call that returns no rows.
Ret(op, name, arg, id, raised) ==
    [op |-> op, name |-> name, arg |-> arg, id |-> id, raised |-> raised,
     avg |-> <<>>, rows |-> <<>>, counts |-> <<>>]

----------------------------------------------------------------------------
(* DBManager: the writes.  Each operator is the whole method: it sets the  *)
(* store and ret, and leaves the position of interface() to its caller.    *)

\* DBManager.insert_company.  Every exception is caught and answered with None,
\* and the finally clause commits, which also ends an aborted transaction.
\* (The values a failed INSERT may take from the SERIAL sequence are not
\* modelled: nothing reads the numbering of the ids.)
insert_company(company) ==
    LET found == {c \in companies : company.name # NoneStr /\ c.name = company.name}
        row == [id |-> companies_id_seq + 1, name |-> company.name,
                url |-> company.url, description |-> company.description]
    IN  /\ in_error' = FALSE
        /\ UNCHANGED <<vacancies, vacancies_id_seq>>
        /\ IF in_error
           THEN \* the SELECT raises InFailedSqlTransaction
                /\ ret' = Ret("insert_company", company.name, NoneInt, NoneInt, FALSE)
                /\ UNCHANGED <<companies, companies_id_seq>>
           ELSE IF found # {}
           THEN \E c \in found :
                /\ ret' = Ret("insert_company", company.name, NoneInt, c.id, FALSE)
                /\ UNCHANGED <<companies, companies_id_seq>>
           ELSE IF CompanyViolates(company)
           THEN /\ ret' = Ret("insert_company", company.name, NoneInt, NoneInt, FALSE)
                /\ UNCHANGED <<companies, companies_id_seq>>
           ELSE /\ companies_id_seq < MaxCompanyId
                /\ companies' = companies \cup {row}
                /\ companies_id_seq' = row.id
                /\ ret' = Ret("insert_company", company.name, NoneInt, row.id, FALSE)

\* DBManager.insert_vacancy.  Nothing is caught and nothing is rolled back: a
\* statement that fails leaves the transaction aborted.
insert_vacancy(vacancy) ==
    LET found == {c \in companies : vacancy.url # NoneStr /\ c.url = vacancy.url}
        row == [id |-> vacancies_id_seq + 1, company_id |-> vacancy.company_id,
                title |-> vacancy.title, salary_from |-> vacancy.salary_from,
                salary_to |-> vacancy.salary_to, url |-> vacancy.url,
                description |-> vacancy.description]
    IN  /\ UNCHANGED <<companies, companies_id_seq>>
        /\ IF in_error
           THEN \* the SELECT raises InFailedSqlTransaction
                /\ ret' = Ret("insert_vacancy", "", NoneInt, NoneInt, TRUE)
                /\ UNCHANGED <<vacancies, vacancies_id_seq, in_error>>
           ELSE IF found # {}
           THEN \E c \in found :
                /\ ret' = Ret("insert_vacancy", "", NoneInt, c.id, FALSE)
                /\ UNCHANGED <<vacancies, vacancies_id_seq, in_error>>
           ELSE IF VacancyViolates(vacancy)
           THEN /\ ret' = Ret("insert_vacancy", "", NoneInt, NoneInt, TRUE)
                /\ in_error' = TRUE
                /\ UNCHANGED <<vacancies, vacancies_id_seq>>
           ELSE /\ vacancies_id_seq < MaxVacancyId
                /\ vacancies' = vacancies \cup {row}
                /\ vacancies_id_seq' = row.id
                /\ in_error' = FALSE
                /\ ret' = Ret("insert_vacancy", "", NoneInt, NoneInt, FALSE)

\* A DELETE and its commit; in an aborted transaction the DELETE raises.
Delete(op, arg, companies_left, vacancies_left) ==
    /\ UNCHANGED <<companies_id_seq, vacancies_id_seq, in_error>>
    /\ IF in_error
       THEN /\ ret' = Ret(op, "", arg, NoneInt, TRUE)
            /\ UNCHANGED <<companies, vacancies>>
       ELSE /\ ret' = Ret(op, "", arg, NoneInt, FALSE)
            /\ companies' = companies_left
            /\ vacancies' = vacancies_left

\* DBManager.delete_vacancy
delete_vacancy(vacancy_id) ==
    Delete("delete_vacancy", vacancy_id, companies,
           {v \in vacancies : v.id # vacancy_id})

\* DBManager.delete_all_vacancies
delete_all_vacancies == Delete("delete_all_vacancies", NoneInt, companies, {})

\* DBManager.delete_company
delete_company(id) ==
    Delete("delete_company", id, {c \in companies : c.id # id},
           Cascade({c \in companies : c.id = id}))

\* DBManager.delete_all_companies
delete_all_companies == Delete("delete_all_companies", NoneInt, {}, Cascade(companies))

----------------------------------------------------------------------------
(* DBManager: the queries, as functions of the store *)

\* salary_from IS NOT NULL AND salary_to IS NOT NULL
BothBounds(v) == v.salary_from # NoneInt /\ v.salary_to # NoneInt

\* salary_from + salary_to, twice the midpoint (salary_from + salary_to) / 2.0
Midpoint2(v) == v.salary_from + v.salary_to

RECURSIVE SumMidpoint2(_)
\* The sum AVG takes over the midpoints of `rows`, doubled.
SumMidpoint2(rows) ==
    IF rows = {} THEN 0
    ELSE LET v == CHOOSE x \in rows : TRUE
         IN  Midpoint2(v) + SumMidpoint2(rows \ {v})

\* AvgRows with OR in place of AND in the WHERE clause.
AvgRowsEitherBound == {v \in vacancies : v.salary_from # NoneInt \/ v.salary_to # NoneInt}

\* The rows the WHERE clause of get_avg_salary keeps.
AvgRows == {v \in vacancies : BothBounds(v)}

\* SELECT AVG((salary_from + salary_to) / 2.0) ...: <<>> is None, the AVG of no row.
AvgSalary ==
    IF AvgRows = {} THEN <<>>
    ELSE <<SumMidpoint2(AvgRows), 2 * Cardinality(AvgRows)>>

\* FROM vacancies JOIN companies ON vacancies.company_id = companies.id
Joined == {v \in vacancies : v.company_id # NoneInt /\ v.company_id \in Ids(companies)}

\* The entry of a result set for vacancies row v.
Entry(v) ==
    [company_name |-> (CHOOSE c \in companies : c.id = v.company_id).name,
     title |-> v.title, salary_from |-> v.salary_from, salary_to |-> v.salary_to,
     url |-> v.url]

\* The result set with one entry for each row of `rows`.
ResultSet(rows) == [id \in Ids(rows) |-> Entry(CHOOSE v \in rows : v.id = id)]

\* WHERE (salary_from + salary_to) / 2.0 > avg: NULL, so not kept, with a NULL bound
Higher(v, avg) == BothBounds(v) /\ Midpoint2(v) * avg[2] > 2 * avg[1]

\* The rows of get_all_vacancies
AllVacancies == ResultSet(Joined)

\* The rows of get_vacancies_with_higher_salary
HigherSalary ==
    IF AvgSalary = <<>> THEN <<>>
    ELSE ResultSet({v \in Joined : Higher(v, AvgSalary)})

\* LeftJoin as an inner JOIN.
InnerJoin == {<<c, v>> \in companies \X vacancies : c.id = v.company_id}

\* companies LEFT JOIN vacancies ON companies.id = vacancies.company_id
LeftJoin ==
    {<<c, v>> \in companies \X vacancies : c.id = v.company_id}
        \cup {<<c, c>> : c \in {x \in companies : x.id \notin {v.company_id : v \in vacancies}}}

\* GROUP BY companies.name with COUNT(vacancies.id): <<c, c>> stands for the row
\* of a company without vacancies, whose vacancies.id is NULL and is not counted.
CompaniesAndVacanciesCount ==
    [name \in {p[1].name : p \in LeftJoin} |->
        Cardinality({p \in LeftJoin : p[1].name = name /\ p[2] \notin companies})]

\* A query method: it raises in an aborted transaction and changes no row.
Query(op, avg, rows, counts) ==
    /\ pc = "menu"
    /\ UNCHANGED <<store, loop>>
    /\ ret' = IF in_error THEN Ret(op, "", NoneInt, NoneInt, TRUE)
              ELSE [Ret(op, "", NoneInt, NoneInt, FALSE) EXCEPT
                        !.avg = avg, !.rows = rows, !.counts = counts]

get_companies_and_vacancies_count ==
    Query("get_companies_and_vacancies_count", <<>>, <<>>, CompaniesAndVacanciesCount)

get_all_vacancies == Query("get_all_vacancies", <<>>, AllVacancies, <<>>)

get_avg_salary == Query("get_avg_salary", AvgSalary, <<>>, <<>>)

get_vacancies_with_higher_salary ==
    Query("get_vacancies_with_higher_salary", <<>>, HigherSalary, <<>>)

----------------------------------------------------------------------------------------------------------------------------------------
(* DBManager.get_vacancies_with_keyword: title ILIKE '%keyword%' *)

UpperCase == "ABCDEFGHIJKLMNOPQRSTUVWXYZ"

LowerCase == "abcdefghijklmnopqrstuvwxyz"

\* The case folding of ILIKE, for one character.
Lower(ch) ==
    IF \E i \in 1..Len(UpperCase) : SubSeq(UpperCase, i, i) = ch
    THEN LET i == CHOOSE j \in 1..Len(UpperCase) : SubSeq(UpperCase, j, j) = ch
         IN  SubSeq(LowerCase, i, i)
    ELSE ch

RECURSIVE ILike(_, _)
\* text ILIKE pattern: % stands for any run of characters, _ for any one
\* character, a backslash takes the next character of the pattern literally,
\* and any other character stands for itself in either case.
ILike(text, pattern) ==
    IF pattern = "" THEN text = ""
    ELSE IF Head(pattern) = "%"
    THEN \/ ILike(text, Tail(pattern))
         \/ text # "" /\ ILike(Tail(text), pattern)
    ELSE IF Head(pattern) = "_"
    THEN text # "" /\ ILike(Tail(text), Tail(pattern))
    ELSE IF Head(pattern) = "\\"
    THEN /\ Tail(pattern) # ""
         /\ text # ""
         /\ Lower(Head(text)) = Lower(Head(Tail(pattern)))
         /\ ILike(Tail(text), Tail(Tail(pattern)))
    ELSE /\ text # ""
         /\ Lower(Head(text)) = Lower(Head(pattern))
         /\ ILike(Tail(text), Tail(pattern))

\* The parameter f'%{keyword}%' of the query.
KeywordPattern(keyword) == "%" \o keyword \o "%"

\* SELECT companies.name as company_name, vacancies.title, vacancies.url
KeywordEntry(v) ==
    [company_name |-> (CHOOSE c \in companies : c.id = v.company_id).name,
     title |-> v.title, url |-> v.url]

\* The rows of get_vacancies_with_keyword(keyword)
WithKeyword(keyword) ==
    LET rows == {v \in Joined : ILike(v.title, KeywordPattern(keyword))}
    IN  [id \in Ids(rows) |-> KeywordEntry(CHOOSE v \in rows : v.id = id)]

\* The keywords a user enters at choice '6'.
Keywords == {"", "dev", "%", "_"}

\* DBManager.get_vacancies_with_keyword; ret.name holds the keyword.
get_vacancies_with_keyword(keyword) ==
    /\ pc = "menu"
    /\ UNCHANGED <<store, loop>>
    /\ ret' = IF in_error
              THEN Ret("get_vacancies_with_keyword", keyword, NoneInt, NoneInt, TRUE)
              ELSE [Ret("get_vacancies_with_keyword", keyword, NoneInt, NoneInt, FALSE)
                        EXCEPT !.rows = WithKeyword(keyword)]

----------------------------------------------------------------------------
(* DBSaver, as a caller of the library uses it.  The calls come one after  *)
(* the other (single-threaded use).                                        *)

\* The company dicts a caller passes to save_company.
Companies ==
    [name : {"Acme", "Beta", LongText}, url : {NoneStr, "u1"}, description : {NoneStr}]

\* The vacancy dicts a caller passes to save_vacancies: with and without a salary,
\* with a title the column rejects, under company ids that exist and that do not.
VacancyDicts ==
    {vacancy_data(r, cid) : r \in {x \in RawRecords : x.snippet = "dict" /\ x.salary # "absent"},
                            cid \in {NoneInt} \cup (1..MaxCompanyId)}

\* DBSaver.save_company
save_company(company) ==
    /\ pc = "menu"
    /\ insert_company(company)
    /\ UNCHANGED loop

\* DBSaver.save_vacancies
save_vacancies(data) ==
    /\ pc = "menu"
    /\ insert_vacancy(data)
    /\ UNCHANGED loop

\* DBSaver.delete_company: `if record_id:` is false for None and for 0.
DBSaver_delete_company(record_id) ==
    /\ pc = "menu"
    /\ IF record_id # NoneInt /\ record_id # 0
       THEN delete_company(record_id)
       ELSE delete_all_companies
    /\ UNCHANGED loop

\* DBSaver.delete_vacancy
DBSaver_delete_vacancy(record_id) ==
    /\ pc = "menu"
    /\ IF record_id # NoneInt /\ record_id # 0
       THEN delete_vacancy(record_id)
       ELSE delete_all_vacancies
    /\ UNCHANGED loop

----------------------------------------------------------------------------
(* interface(): the menu and, for choice '1', the ingestion of every       *)
(* configured company.  The list get_vacancies returned is read one record *)
(* at a time, and the model chooses each record when the loop reaches it.  *)

\* The outer loop moves to its next company_name, or ends at the menu.
\* company_id and visited are dead until they are assigned again.
NextCompany ==
    /\ company_id' = NoneInt
    /\ visited' = 0
    /\ IF company_idx < Len(company_names)
       THEN pc' = "company" /\ company_idx' = company_idx + 1
       ELSE pc' = "menu" /\ company_idx' = 0

Choice1 ==
    /\ pc = "menu"
    /\ pc' = "company"
    /\ company_idx' = 1
    /\ UNCHANGED <<store, company_id, visited, ret>>

\* get_vacancies raises (caught, printed) or returns no record.
FetchNothing ==
    /\ pc = "company"
    /\ NextCompany
    /\ UNCHANGED <<store, ret>>

\* get_vacancies returns records: the company is saved and the inner loop starts.
FetchSome ==
    /\ pc = "company"
    /\ insert_company(company_data(company_names[company_idx]))
    /\ company_id' = ret'.id
    /\ visited' = 0
    /\ pc' = "records"
    /\ UNCHANGED company_idx

\* One pass of the inner loop over record `vacancy`; an exception of the pass
\* is caught and printed.
IngestRecord(vacancy) ==
    /\ pc = "records"
    /\ visited < MaxBatch
    /\ IF NormalizeRaises(vacancy)
       THEN UNCHANGED <<store, ret>>
       ELSE insert_vacancy(vacancy_data(vacancy, company_id))
    /\ visited' = visited + 1
    /\ UNCHANGED <<pc, company_idx, company_id>>

\* The inner loop is through: the list held at least one record.
RecordsDone ==
    /\ pc = "records"
    /\ visited >= 1
    /\ NextCompany
    /\ UNCHANGED <<store, ret>>

\* Choices '7' and '8', confirmed.
Choice7 == DBSaver_delete_vacancy(NoneInt)

Choice8 == DBSaver_delete_company(NoneInt)

----------------------------------------------------------------------------

\* DBManager.__init__ on an empty database, then interface() at its menu.
Init ==
    /\ companies = {}
    /\ vacancies = {}
    /\ companies_id_seq = 0
    /\ vacancies_id_seq = 0
    /\ in_error = FALSE
    /\ pc = "menu"
    /\ company_idx = 0
    /\ company_id = NoneInt
    /\ visited = 0
    /\ ret = Ret("__init__", "", NoneInt, NoneInt, FALSE)

\* The program: interface() and its menu.
Next ==
    \/ Choice1
    \/ FetchNothing
    \/ FetchSome
    \/ \E vacancy \in RawRecords : IngestRecord(vacancy)
    \/ RecordsDone
    \/ get_companies_and_vacancies_count
    \/ get_all_vacancies
    \/ get_avg_salary
    \/ get_vacancies_with_higher_salary
    \/ \E keyword \in Keywords : get_vacancies_with_keyword(keyword)
    \/ Choice7
    \/ Choice8

Spec == Init /\ [][Next]_vars

\* The library: any sequence of the writes of DBSaver.
NextApi ==
    \/ \E company \in Companies : save_company(company)
    \/ \E data \in VacancyDicts : save_vacancies(data)
    \/ \E id \in {NoneInt} \cup (0..MaxCompanyId) : DBSaver_delete_company(id)
    \/ \E id \in {NoneInt} \cup (0..MaxVacancyId) : DBSaver_delete_vacancy(id)

SpecApi == Init /\ [][NextApi]_vars

----------------------------------------------------------------------------
(* Claims *)

\* The first half of C1 alone: no two rows of companies have the same name.
OneRowPerName == \A c1 \in companies, c2 \in companies : c1.name = c2.name => c1 = c2

\* C1: after any sequence of save_company, save_vacancies and deletes, companies
\* holds at most one row per name, and a save_company that follows a
\* save_company of the same name (a name the schema accepts) returns the id the
\* first one returned and leaves exactly one row of that name.
C1_EnsureCompanyIdempotent ==
    [][ /\ OneRowPerName'
        /\ \A company \in Companies :
              ( /\ ~CompanyViolates(company)
                /\ ret.op = "insert_company"
                /\ ret.name = company.name
                /\ save_company(company) )
              => /\ ret'.id = ret.id
                 /\ Cardinality({c \in companies' : c.name = company.name}) = 1 ]_vars

\* C2: a record ingested twice is stored once: no two rows of vacancies hold the
\* same normalized record (the same company, url, title, salary, description).
C2_VacancyStoredOnce ==
    \A v1 \in vacancies, v2 \in vacancies :
        ( /\ v1.company_id = v2.company_id
          /\ v1.url = v2.url
          /\ v1.title = v2.title
          /\ v1.salary_from = v2.salary_from
          /\ v1.salary_to = v2.salary_to
          /\ v1.description = v2.description )
        => v1.id = v2.id

\* C3: every row of vacancies has a company_id that is the id of a row of
\* companies, never NULL and never dangling.
C3_VacancyHasCompany == \A v \in vacancies : v.company_id \in Ids(companies)

\* C4: a pass of the inner loop over a record whose insert would succeed on its
\* own (it normalizes, the schema accepts it, no dedup hit) stores the record,
\* whatever happened to the records before it; and the save_company of every
\* company of the run returns the id of that company's row.
C4_RecordFailureIsolated ==
    [][ /\ \A r \in RawRecords :
              ( /\ IngestRecord(r)
                /\ ~NormalizeRaises(r)
                /\ ~VacancyViolates(vacancy_data(r, company_id))
                /\ \A c \in companies : c.url # vacancy_data(r, company_id).url )
              => \E v \in vacancies' \ vacancies :
                    /\ v.company_id = company_id
                    /\ v.title = vacancy_data(r, company_id).title
                    /\ v.url = vacancy_data(r, company_id).url
        /\ FetchSome => \E c \in companies' :
                            c.id = ret'.id /\ c.name = company_names[company_idx] ]_vars

\* C5: a step that deletes rows of companies deletes every vacancy that
\* referenced one of them, and get_all_vacancies then lists none of those and
\* still lists, unchanged, every vacancy of a company that was not deleted.
C5_CascadeDelete ==
    [][ LET gone == companies \ companies'
        IN  gone # {} =>
              /\ \A v \in vacancies :
                    v.company_id \in Ids(gone)
                    => v \notin vacancies' /\ v.id \notin DOMAIN AllVacancies'
              /\ \A v \in vacancies :
                    v.company_id \in Ids(companies')
                    => /\ v \in vacancies'
                       /\ v.id \in DOMAIN AllVacancies'
                       /\ AllVacancies'[v.id] = AllVacancies[v.id] ]_vars

\* C5 witness: delete_company(id) has deleted a company; fewer vacancies are left
\* than were inserted, and a vacancy of another company is still listed.
C5_Witness ==
    /\ ret.op = "delete_company"
    /\ ~ret.raised
    /\ ret.arg \in 1..companies_id_seq
    /\ ret.arg \notin Ids(companies)
    /\ Cardinality(vacancies) < vacancies_id_seq
    /\ AllVacancies # <<>>

\* C6: insert_company either raises or returns the id of the row of that name,
\* so the inner loop of the ingestion never runs under a company_id that is not
\* the id of a company.
C6_InsertCompanyRaises ==
    /\ (ret.op = "insert_company" /\ ~ret.raised) => ret.id \in Ids(companies)
    /\ pc = "records" => company_id \in Ids(companies)

\* C7: get_avg_salary, when it is answered, returns None if no vacancy has both
\* bounds, and otherwise the mean of (salary_from + salary_to) / 2 over the
\* vacancies that have both bounds.
C7_AverageSalary ==
    (ret.op = "get_avg_salary" /\ ~ret.raised) =>
        LET both == {v \in vacancies : v.salary_from # NoneInt /\ v.salary_to # NoneInt}
        IN  IF both = {} THEN ret.avg = <<>>
            ELSE /\ ret.avg # <<>>
                 /\ ret.avg[2] > 0
                 /\ ret.avg[1] * 2 * Cardinality(both) = ret.avg[2] * SumMidpoint2(both)

\* C7 witness: get_avg_salary has answered 2000, the midpoint of the one vacancy
\* with both bounds, while another vacancy has a single bound.
C7_Witness ==
    /\ ret.op = "get_avg_salary"
    /\ ret.avg = <<4000, 2>>
    /\ \E v \in vacancies : v.salary_from # NoneInt /\ v.salary_to = NoneInt

\* C8: get_vacancies_with_higher_salary, when it is answered, returns exactly the
\* vacancies with both bounds whose midpoint is greater than the average
\* salary, and nothing when there is no average.
C8_AboveAverage ==
    (ret.op = "get_vacancies_with_higher_salary" /\ ~ret.raised) =>
        DOMAIN ret.rows =
            {v.id : v \in {x \in vacancies :
                            /\ AvgSalary # <<>>
                            /\ x.salary_from # NoneInt
                            /\ x.salary_to # NoneInt
                            /\ (x.salary_from + x.salary_to) * AvgSalary[2]
                                   > 2 * AvgSalary[1]}}

\* C9: the row a pass of the inner loop stores for a raw record has, as its
\* salary_from and salary_to, the from and to of the record's salary object, 0
\* for a key the object does not have, and 0 and 0 when the record has no salary
\* object; get_all_vacancies lists the row with these values once its company
\* is stored.
C9_SalaryNormalized ==
    [][ \A r \in RawRecords :
          IngestRecord(r) =>
            \A v \in vacancies' \ vacancies :
              LET from == IF r.salary = "dict"
                          THEN (IF r.from = AbsentInt THEN 0 ELSE r.from) ELSE 0
                  to ==   IF r.salary = "dict"
                          THEN (IF r.to = AbsentInt THEN 0 ELSE r.to) ELSE 0
              IN  /\ v.salary_from = from
                  /\ v.salary_to = to
                  /\ v.company_id \in Ids(companies')
                     => /\ v.id \in DOMAIN AllVacancies'
                        /\ AllVacancies'[v.id].salary_from = from
                        /\ AllVacancies'[v.id].salary_to = to ]_vars

\* C9 witness: after the ingestion of two records of Acme, one with a full salary
\* and one without a salary object, get_all_vacancies has returned two rows, one
\* of them with salary_from = salary_to = 0.
C9_Witness ==
    /\ ret.op = "get_all_vacancies"
    /\ Cardinality(vacancies) = 2
    /\ Cardinality(DOMAIN ret.rows) = 2
    /\ \A id \in DOMAIN ret.rows : ret.rows[id].company_name = "Acme"
    /\ \E id \in DOMAIN ret.rows :
          ret.rows[id].salary_from = 1000 /\ ret.rows[id].salary_to = 3000
    /\ \E id \in DOMAIN ret.rows :
          ret.rows[id].salary_from = 0 /\ ret.rows[id].salary_to = 0

\* C10: get_companies_and_vacancies_count, when it is answered, returns one entry
\* per row of companies, with the number of vacancies that reference the row,
\* 0 included.
C10_CountPerCompany ==
    (ret.op = "get_companies_and_vacancies_count" /\ ~ret.raised) =>
        /\ DOMAIN ret.counts = {c.name : c \in companies}
        /\ Cardinality(DOMAIN ret.counts) = Cardinality(companies)
        /\ \A c \in companies :
              ret.counts[c.name] = Cardinality({v \in vacancies : v.company_id = c.id})

\* C10 witness: the query has returned a company with no vacancy, counted 0,
\* next to a company with vacancies.
C10_Witness ==
    /\ ret.op = "get_companies_and_vacancies_count"
    /\ \E n \in DOMAIN ret.counts : ret.counts[n] = 0
    /\ \E n \in DOMAIN ret.counts : ret.counts[n] >= 1


RECURSIVE Fold(_)
\* A string with every letter in lower case.
Fold(text) == IF text = "" THEN "" ELSE Lower(Head(text)) \o Fold(Tail(text))

\* keyword occurs in text as a literal substring, letter case ignored.
Contains(text, keyword) ==
    \E i \in 1..(Len(text) - Len(keyword) + 1) :
        Fold(SubSeq(text, i, i + Len(keyword) - 1)) = Fold(keyword)

\* C11: an answered get_vacancies_with_keyword(keyword) returns exactly the
\* vacancies whose title contains the keyword as a literal substring, letter
\* case ignored: every vacancy for the empty keyword, and for a keyword made
\* of % or _ only the titles that contain that character itself.
C11_KeywordLiteralSubstring ==
    (ret.op = "get_vacancies_with_keyword" /\ ~ret.raised) =>
        DOMAIN ret.rows = Ids({v \in Joined : Contains(v.title, ret.name)})

\* C12: a delete by identifier through the saver, for every integer id (0 and
\* ids of no row included), keeps every company with another id and every
\* vacancy that is neither the named one nor a vacancy of the named company;
\* only a call without an id deletes all rows.
C12_DeleteByIdFrame ==
    [][/\ \A id \in 0..MaxCompanyId :
            DBSaver_delete_company(id) =>
                /\ {c \in companies : c.id # id} \subseteq companies'
                /\ {v \in vacancies : v.company_id # id} \subseteq vacancies'
       /\ \A id \in 0..MaxVacancyId :
            DBSaver_delete_vacancy(id) =>
                /\ companies' = companies
                /\ {v \in vacancies : v.id # id} \subseteq vacancies']_vars

====
